---------------------------- MODULE Spec2Model ----------------------------
(***************************************************************************)
(* A model of stlgen: the relief-mesh generators (image_to_shadow_disk,    *)
(* image_to_shadow_stl), the binary mesh writer and reader, and the        *)
(* raytracing verifier (ray_triangle_intersect, make_shadow_image,         *)
(* make_render_image).                                                     *)
(*                                                                         *)
(* Numbers.  The generator's coordinates are binary fixed-point numbers:   *)
(* the integer m stands for the float m / 2^FracBits, which is an exact    *)
(* double, so that packing to float32 is computed bit by bit.  The         *)
(* raytracer's coordinates are integers in thousandths (UnitDen), its      *)
(* arithmetic is exact rational arithmetic, and a ray's direction is kept  *)
(* as the vector W that the code normalises (dir = W / |W|).               *)
(***************************************************************************)
EXTENDS Integers, Sequences, FiniteSets, TLC

\* ------------------------------------------------------------------------
\* Integer helpers
\* ------------------------------------------------------------------------
Abs(x) == IF x < 0 THEN -x ELSE x

Sgn(x) == IF x < 0 THEN -1 ELSE IF x > 0 THEN 1 ELSE 0

Max2(a, b) == IF a >= b THEN a ELSE b

RECURSIVE Pow2(_)
Pow2(n) == IF n <= 0 THEN 1 ELSE 2 * Pow2(n - 1)

\* The number of bits of x > 0: 2^(BitLen(x)-1) <= x < 2^BitLen(x).
RECURSIVE BitLen(_)
BitLen(x) == IF x <= 0 THEN 0 ELSE 1 + BitLen(x \div 2)

\* floor(sqrt(n)) by bisection on lo..hi (lo*lo <= n < (hi+1)*(hi+1)).
RECURSIVE SqrtBetween(_, _, _)
SqrtBetween(n, lo, hi) ==
    IF lo >= hi THEN lo
    ELSE LET mid == (lo + hi + 1) \div 2
         IN  IF mid * mid <= n THEN SqrtBetween(n, mid, hi)
                               ELSE SqrtBetween(n, lo, mid - 1)

Isqrt(n) == SqrtBetween(n, 0, 46340)

\* Division rounding to the nearest integer, halves away from zero.
RoundDiv(a, b) == Sgn(a) * ((2 * Abs(a) + b) \div (2 * b))

RECURSIVE Gcd(_, _)
Gcd(a, b) == IF b = 0 THEN Abs(a) ELSE Gcd(Abs(b), Abs(a) % Abs(b))

\* The concatenation of ss[lo], ..., ss[hi], in order (by halves, to keep the
\* evaluation shallow).
RECURSIVE FlattenRange(_, _, _)
FlattenRange(ss, lo, hi) ==
    IF lo > hi THEN <<>>
    ELSE IF lo = hi THEN ss[lo]
    ELSE LET mid == (lo + hi) \div 2
         IN  FlattenRange(ss, lo, mid) \o FlattenRange(ss, mid + 1, hi)

\* The concatenation of a sequence of sequences, in order.
Flatten(ss) == FlattenRange(ss, 1, Len(ss))

IsPrefix(s, t) == Len(s) <= Len(t) /\ SubSeq(t, 1, Len(s)) = s

\* ------------------------------------------------------------------------
\* Generator numbers: fixed point with FracBits fraction bits
\* ------------------------------------------------------------------------
FracBits == 10

One == Pow2(FracBits)

\* ------------------------------------------------------------------------
\* struct.pack("<f") / struct.unpack("<f"): IEEE-754 binary32, little-endian
\* ------------------------------------------------------------------------
\* The 24-bit significand and the unbiased exponent of the float32 nearest
\* to x / 2^FracBits (x > 0), rounding to nearest, ties to even.
F32Round(x) ==
    LET b     == BitLen(x)
        shift == b - 24
        q     == IF shift <= 0 THEN x * Pow2(-shift) ELSE x \div Pow2(shift)
        r     == IF shift <= 0 THEN 0 ELSE x % Pow2(shift)
        half  == IF shift <= 0 THEN 1 ELSE Pow2(shift - 1)
        up    == shift > 0 /\ (r > half \/ (r = half /\ q % 2 = 1))
        m     == IF up THEN q + 1 ELSE q
    IN  IF m = Pow2(24) THEN [mant |-> Pow2(23), exp |-> b - FracBits]
                        ELSE [mant |-> m, exp |-> b - 1 - FracBits]

\* The four bytes struct.pack("<f", m / 2^FracBits) writes.
PackF32(m) ==
    IF m = 0 THEN <<0, 0, 0, 0>>
    ELSE LET f      == F32Round(Abs(m))
             biased == f.exp + 127
             frac   == f.mant - Pow2(23)
             sign   == IF m < 0 THEN 1 ELSE 0
         IN  << frac % 256,
                (frac \div 256) % 256,
                (biased % 2) * 128 + frac \div 65536,
                sign * 128 + biased \div 2 >>

\* The value struct.unpack("<f") reads from four bytes, in fixed point.
UnpackF32(b) ==
    LET sign   == b[4] \div 128
        biased == (b[4] % 128) * 2 + b[3] \div 128
        frac   == (b[3] % 128) * 65536 + b[2] * 256 + b[1]
        sh     == biased - 150 + FracBits
        mag    == IF biased = 0 THEN 0
                  ELSE IF sh >= 0 THEN (Pow2(23) + frac) * Pow2(sh)
                  ELSE (Pow2(23) + frac) \div Pow2(-sh)
    IN  IF sign = 1 THEN -mag ELSE mag

\* struct.pack("<3f", x, y, z): twelve bytes.
Pack3f(v) == PackF32(v[1]) \o PackF32(v[2]) \o PackF32(v[3])

\* A faulty to_bytes: byteorder="big".
RECURSIVE ToBytesBE(_, _)
ToBytesBE(x, n) == IF n = 0 THEN <<>> ELSE ToBytesBE(x \div 256, n - 1) \o <<x % 256>>

\* int.to_bytes(n, byteorder="little") for n >= 0.
RECURSIVE ToBytesLE(_, _)
ToBytesLE(x, n) == IF n = 0 THEN <<>> ELSE <<x % 256>> \o ToBytesLE(x \div 256, n - 1)

\* struct.unpack of an unsigned little-endian integer ("<I", "<H").
RECURSIVE FromBytesLE(_)
FromBytesLE(b) == IF b = <<>> THEN 0 ELSE Head(b) + 256 * FromBytesLE(Tail(b))


\* ------------------------------------------------------------------------
\* The primitive tessellator (disk_shadow_stl_generator.py)
\* ------------------------------------------------------------------------
\* A vertex is <<x, y, z>>, a face is <<v1, v2, v3>>.
create_cube(x, y, z, size, height) ==
    LET p == << <<x, y, z>>,
                <<x + size, y, z>>,
                <<x + size, y + size, z>>,
                <<x, y + size, z>>,
                <<x, y, z + height>>,
                <<x + size, y, z + height>>,
                <<x + size, y + size, z + height>>,
                <<x, y + size, z + height>> >>
    IN  << <<p[1], p[4], p[2]>>, <<p[2], p[4], p[3]>>,
           <<p[5], p[6], p[8]>>, <<p[6], p[7], p[8]>>,
           <<p[1], p[2], p[5]>>, <<p[2], p[6], p[5]>>,
           <<p[2], p[3], p[6]>>, <<p[3], p[7], p[6]>>,
           <<p[3], p[4], p[7]>>, <<p[4], p[8], p[7]>>,
           <<p[4], p[1], p[8]>>, <<p[1], p[5], p[8]>> >>

create_pyramid(x, y, z, size, height) ==
    LET base == << <<x, y, z>>,
                   <<x + size, y, z>>,
                   <<x + size, y + size, z>>,
                   <<x, y + size, z>> >>
        apex == <<x + size \div 2, y + size \div 2, z + height>>
    IN  << <<base[1], base[2], base[3]>>, <<base[1], base[3], base[4]>>,
           <<base[1], base[2], apex>>, <<base[2], base[3], apex>>,
           <<base[3], base[4], apex>>, <<base[4], base[1], apex>> >>

\* The default of create_cylinder's segments parameter, which the generator
\* never overrides.
Segments == 12

\* 1024 * cos(2*pi*i/12) and 1024 * sin(2*pi*i/12), rounded.
CosTable == <<1024, 887, 512, 0, -512, -887, -1024, -887, -512, 0, 512, 887>>

Cos12(i) == CosTable[(i % 12) + 1]

Sin12(i) == CosTable[((i + 9) % 12) + 1]

create_cylinder(x, y, z, size, height, segments) ==
    LET radius == size \div 2
        cx == x + radius
        cy == y + radius
        P(i, zz) == << cx + RoundDiv(radius * Cos12(i), 1024),
                       cy + RoundDiv(radius * Sin12(i), 1024), zz >>
        Slice(i) ==
            LET p1 == P(i, z)
                p2 == P(i + 1, z)
                p1_top == P(i, z + height)
                p2_top == P(i + 1, z + height)
            IN  << << <<cx, cy, z>>, p2, p1 >>,
                   << <<cx, cy, z + height>>, p1_top, p2_top >>,
                   << p1, p2, p1_top >>,
                   << p2, p2_top, p1_top >> >>
    IN  Flatten([i \in 1..segments |-> Slice(i - 1)])

\* _normal: the cross product of (v2 - v1) and (v3 - v1) divided by its
\* length, or by 1.0 when the length is zero.  The cross product is exact;
\* the square root and the division keep twelve bits, so the result is the
\* unit normal to within 1/1024 (a float keeps 53 bits).
Normal(v1, v2, v3) ==
    LET ux == v2[1] - v1[1]
        uy == v2[2] - v1[2]
        uz == v2[3] - v1[3]
        vx == v3[1] - v1[1]
        vy == v3[2] - v1[2]
        vz == v3[3] - v1[3]
        nx == uy * vz - uz * vy
        ny == uz * vx - ux * vz
        nz == ux * vy - uy * vx
        big == Max2(Abs(nx), Max2(Abs(ny), Abs(nz)))
        b == BitLen(big)
        Scale(c) == IF b > 12 THEN Sgn(c) * (Abs(c) \div Pow2(b - 12))
                              ELSE c * Pow2(12 - b)
        sx == Scale(nx)
        sy == Scale(ny)
        sz == Scale(nz)
        len0 == Isqrt(sx * sx + sy * sy + sz * sz)
        length == IF len0 = 0 THEN 1 ELSE len0
    IN  IF big = 0 THEN <<0, 0, 0>>
        ELSE << RoundDiv(sx * One, length),
                RoundDiv(sy * One, length),
                RoundDiv(sz * One, length) >>

\* ------------------------------------------------------------------------
\* write_binary_stl
\* ------------------------------------------------------------------------
\* b"Created by disk_shadow_generator".ljust(80, b" ")
HeaderText ==
    << 67, 114, 101, 97, 116, 101, 100, 32, 98, 121, 32, 100, 105, 115, 107,
       95, 115, 104, 97, 100, 111, 119, 95, 103, 101, 110, 101, 114, 97, 116,
       111, 114 >>

Ljust(s, n, pad) == s \o [k \in 1..(n - Len(s)) |-> pad]

Header == Ljust(HeaderText, 80, 32)

\* The five f.write calls of one face: the normal, v1, v2, v3, the attribute.
FaceWrites(face) ==
    << Pack3f(Normal(face[1], face[2], face[3])),
       Pack3f(face[1]),
       Pack3f(face[2]),
       Pack3f(face[3]),
       ToBytesLE(0, 2) >>

\* A faulty write_binary_stl: the count field is written as 0 (a placeholder
\* that is never patched).
WriteCalls_ZeroCount(faces) ==
    <<Header, ToBytesLE(0, 4)>>
        \o Flatten([k \in 1..Len(faces) |-> FaceWrites(faces[k])])

\* Every f.write call of write_binary_stl(faces, ...), in order.
WriteCalls(faces) ==
    <<Header, ToBytesLE(Len(faces), 4)>>
        \o Flatten([k \in 1..Len(faces) |-> FaceWrites(faces[k])])

\* The file a write_binary_stl that completes leaves behind.
StlBytes(faces) == Flatten(WriteCalls(faces))

\* ------------------------------------------------------------------------
\* State
\* ------------------------------------------------------------------------
VARIABLES
    cfg,         \* the arguments of the run (never assigned by the code)
    gi, gj,      \* the loop variables i (outer) and j (inner)
    faces,       \* the mesh accumulated so far
    chosen,      \* per visited cell, the shape appended ("none": excluded)
    gpc,         \* "loop", "done", or "error" (ValueError raised)
    run,         \* 1, or 2 for a second run with the same arguments
    file1,       \* the file the first run wrote
    fileExists,  \* whether the output path holds a file
    file         \* the bytes of the file at the output path

genVars == <<cfg, gi, gj, faces, chosen, gpc, run, file1>>

fileVars == <<fileExists, file>>

VARIABLES
    wfaces,   \* the faces argument of write_binary_stl
    wpc,      \* "start", "writing", "closed", "failed", "openfailed"; "off"
    wk,       \* the number of f.write calls that have returned
    loaded    \* the outcome of load_binary_stl on the file, once called

ioVars == <<wfaces, wpc, wk, loaded>>

VARIABLES
    scene,    \* the arguments (never assigned by the code)
    py, px,   \* the loop variables iy and ix of the renderers
    tk,       \* the renderers' position in the triangle list (from 1)
    nearest,  \* make_render_image: [t |-> nearest_t, k |-> index of nearest_tri or 0]
    img,      \* the raster: a function from <<iy, ix>> to 0..255
    shadedBy, \* per pixel, the index of the triangle it was shaded with (0: none)
    rpc,      \* "row", "scan", "done", "error" for a renderer; "call"; "off"
    rres      \* the values the calls of ray_triangle_intersect returned

rayVars == <<scene, py, px, tk, nearest, img, shadedBy, rpc, rres>>

vars == <<genVars, fileVars, ioVars, rayVars>>

\* ------------------------------------------------------------------------
\* The generators: image_to_shadow_disk and image_to_shadow_stl
\* ------------------------------------------------------------------------
\* The largest grid side (resolution) of a run.
MaxRes == 2

\* The most included cells of a run that draws its shapes at random.
MaxMixedCells == 4

KnownShapes == {"cube", "cylinder", "pyramid"}

Shapes == KnownShapes \cup {"mixed", "sphere"}

Images == {"black", "grey", "split"}

\* The resized greyscale image: the luminance at (row, col) of an n x n grid.
Luminance(image, row, col, n) ==
    CASE image = "black" -> 0
      [] image = "grey"  -> 102
      [] image = "split" -> IF 2 * col < n THEN 0 ELSE 255

\* pixels = 255 - pixels
Pixel(image, row, col, n) == 255 - Luminance(image, row, col, n)

\* pixel_size = 2 * outer_radius / resolution
PixelSize(c) == RoundDiv(2 * c.outer_radius, c.resolution)

CellX(c, i) == i * PixelSize(c) - c.outer_radius

\* A faulty inclusion test: "r <= outer_radius" alone, the hole forgotten.
Included_NoHole(c, i, j) ==
    LET mx == CellX(c, i) + PixelSize(c) \div 2
        my == CellX(c, j) + PixelSize(c) \div 2
        r2 == mx * mx + my * my
    IN  /\ c.outer_radius >= 0
        /\ r2 <= c.outer_radius * c.outer_radius

\* hole_radius <= hypot(x + pixel_size/2, y + pixel_size/2) <= outer_radius,
\* decided on the squares.
Included(c, i, j) ==
    LET mx == CellX(c, i) + PixelSize(c) \div 2
        my == CellX(c, j) + PixelSize(c) \div 2
        r2 == mx * mx + my * my
    IN  /\ (c.hole_radius <= 0 \/ c.hole_radius * c.hole_radius <= r2)
        /\ c.outer_radius >= 0
        /\ r2 <= c.outer_radius * c.outer_radius

\* h = base_thickness + (pixels[j, i] / 255.0) * max_relief
CellHeight(c, i, j) ==
    c.base_thickness + RoundDiv(Pixel(c.image, j, i, c.resolution) * c.max_relief, 255)

\* A faulty shape selection: random.choice is taken whatever the shape.
ShapeChoices_AlwaysRandom(shape) == KnownShapes

\* shape_sel: the shape itself, or random.choice of the three when "mixed".
ShapeChoices(shape) == IF shape = "mixed" THEN KnownShapes ELSE {shape}

Tessellate(sel, x, y, size, h) ==
    CASE sel = "cube"     -> create_cube(x, y, 0, size, h)
      [] sel = "cylinder" -> create_cylinder(x, y, 0, size, h, Segments)
      [] sel = "pyramid"  -> create_pyramid(x, y, 0, size, h)

\* A faulty traversal: the loops exchanged, i the inner one.
NextCell_IInner(i, j, n) == IF i + 1 < n THEN <<i + 1, j>> ELSE <<0, j + 1>>

\* The loop variables after the body of cell (i, j): j is the inner loop.
NextCell(i, j, n) == IF j + 1 < n THEN <<i, j + 1>> ELSE <<i + 1, 0>>

CellSet(n) == (0..(n - 1)) \X (0..(n - 1))

IncludedCells(c) == {p \in CellSet(c.resolution) : Included(c, p[1], p[2])}

DiskConfigs ==
    { c \in [ variant : {"disk"},
              resolution : 1..MaxRes,
              outer_radius : {-6 * One, 0, 6 * One},
              hole_radius : {0, 3 * One, 5 * One, 7 * One},
              base_thickness : {One},
              max_relief : {5 * One},
              shape : Shapes,
              image : Images ] :
        c.shape = "mixed" => Cardinality(IncludedCells(c)) <= MaxMixedCells }

\* The most included cells of a run that draws its shapes at random and is
\* run twice.
MaxTwinMixedCells == 1

TwinConfigs ==
    { c \in DiskConfigs :
        c.shape = "mixed" => Cardinality(IncludedCells(c)) <= MaxTwinMixedCells }

\* image_to_shadow_stl: pixel_size = 1.0, min_height = 1.0, max_height = 30.0;
\* the grid side stands for the side the image is resized to.
StlConfigs ==
    [ variant : {"stl"},
      resolution : 1..MaxRes,
      outer_radius : {0},
      hole_radius : {0},
      base_thickness : {One},
      max_relief : {29 * One},
      shape : {"cube"},
      image : Images ]

GenStart(c) ==
    /\ cfg = c
    /\ gi = 0
    /\ gj = 0
    /\ faces = <<>>
    /\ chosen = <<>>
    /\ gpc = "loop"
    /\ run = 1
    /\ file1 = <<>>
    /\ fileExists = FALSE
    /\ file = <<>>

\* One pass of the body of image_to_shadow_disk's inner loop.
DiskCell ==
    /\ gpc = "loop"
    /\ cfg.variant = "disk"
    /\ gi < cfg.resolution
    /\ LET x == CellX(cfg, gi)
           y == CellX(cfg, gj)
           h == CellHeight(cfg, gi, gj)
           nx == NextCell(gi, gj, cfg.resolution)
       IN  IF Included(cfg, gi, gj)
           THEN \E sel \in ShapeChoices(cfg.shape) :
                   IF sel \in KnownShapes
                   THEN /\ faces' = faces \o Tessellate(sel, x, y, PixelSize(cfg), h)
                        /\ chosen' = Append(chosen, sel)
                        /\ gi' = nx[1]
                        /\ gj' = nx[2]
                        /\ gpc' = "loop"
                   ELSE /\ gpc' = "error"
                        /\ UNCHANGED <<faces, chosen, gi, gj>>
           ELSE /\ chosen' = Append(chosen, "none")
                /\ gi' = nx[1]
                /\ gj' = nx[2]
                /\ UNCHANGED <<faces, gpc>>
    /\ UNCHANGED <<cfg, run, file1, fileExists, file>>
    /\ UNCHANGED <<ioVars, rayVars>>

\* After the loops: write_binary_stl(faces, output_path), run to completion.
DiskWrite ==
    /\ gpc = "loop"
    /\ cfg.variant = "disk"
    /\ gi = cfg.resolution
    /\ fileExists' = TRUE
    /\ file' = StlBytes(faces)
    /\ gpc' = "done"
    /\ UNCHANGED <<cfg, gi, gj, faces, chosen, run, file1>>
    /\ UNCHANGED <<ioVars, rayVars>>

\* One pass of the body of image_to_shadow_stl's inner loop: every cell
\* gets a cube of height heights[i, j] at (i * pixel_size, j * pixel_size).
StlCell ==
    /\ gpc = "loop"
    /\ cfg.variant = "stl"
    /\ gi < cfg.resolution
    /\ LET h == cfg.base_thickness
                  + RoundDiv(Pixel(cfg.image, gi, gj, cfg.resolution) * cfg.max_relief, 255)
           nx == NextCell(gi, gj, cfg.resolution)
       IN  /\ faces' = faces \o create_cube(gi * One, gj * One, 0, One, h)
           /\ chosen' = Append(chosen, "cube")
           /\ gi' = nx[1]
           /\ gj' = nx[2]
    /\ UNCHANGED <<cfg, gpc, run, file1, fileExists, file>>
    /\ UNCHANGED <<ioVars, rayVars>>

\* np.concatenate(cubes) and body.save(output_path): the mesh is the cubes in
\* order; the bytes are written by the numpy-stl library, not by this code.
StlSave ==
    /\ gpc = "loop"
    /\ cfg.variant = "stl"
    /\ gi = cfg.resolution
    /\ gpc' = "done"
    /\ UNCHANGED <<cfg, gi, gj, faces, chosen, run, file1, fileExists, file>>
    /\ UNCHANGED <<ioVars, rayVars>>

\* A second call of image_to_shadow_disk with the same arguments.
SecondRun ==
    /\ gpc = "done"
    /\ cfg.variant = "disk"
    /\ run = 1
    /\ run' = 2
    /\ file1' = file
    /\ gi' = 0
    /\ gj' = 0
    /\ faces' = <<>>
    /\ chosen' = <<>>
    /\ gpc' = "loop"
    /\ UNCHANGED <<cfg, fileExists, file>>
    /\ UNCHANGED <<ioVars, rayVars>>

\* ------------------------------------------------------------------------
\* write_binary_stl call by call, and load_binary_stl
\* ------------------------------------------------------------------------
\* The most faces of a mesh handed to write_binary_stl.
MaxFaces == 2

\* 16384 + 1/1024: a double that is not a float32.
BigCoord == Pow2(24) + 1

FaceSamples ==
    { << <<One, One, One>>, <<2 * One, 2 * One, 2 * One>>, <<3 * One, 3 * One, 3 * One>> >>,
      << <<BigCoord, 0, 0>>, <<BigCoord, One, 0>>, <<BigCoord, 0, One>> >>,
      << <<-(3 * One) \div 2, One \div 4, 7>>, <<5 * One, -One, 0>>, <<0, 2 * One, -9>> >> }

RECURSIVE SeqsUpTo(_, _)
SeqsUpTo(S, n) ==
    IF n = 0 THEN {<<>>}
    ELSE LET shorter == SeqsUpTo(S, n - 1)
         IN  shorter \cup {Append(m, f) : m \in shorter, f \in S}

Meshes == SeqsUpTo(FaceSamples, MaxFaces)

\* A file an earlier, complete run left at the output path.
OldFile == StlBytes(<< << <<0, 0, 0>>, <<0, One, 0>>, <<One, 0, 0>> >> >>)

NotLoaded == [status |-> "none", tris |-> <<>>]

\* open(filename, "wb"): the file is created or truncated.
WOpen ==
    /\ wpc = "start"
    /\ fileExists' = TRUE
    /\ file' = <<>>
    /\ wpc' = "writing"
    /\ UNCHANGED <<wfaces, wk, loaded>>
    /\ UNCHANGED <<genVars, rayVars>>

\* open raises (OSError): nothing is written, what was there stays.
WOpenFail ==
    /\ wpc = "start"
    /\ wpc' = "openfailed"
    /\ UNCHANGED <<wfaces, wk, loaded, fileExists, file>>
    /\ UNCHANGED <<genVars, rayVars>>

\* The next f.write call returns.
WWrite ==
    /\ wpc = "writing"
    /\ wk < Len(WriteCalls(wfaces))
    /\ file' = file \o WriteCalls(wfaces)[wk + 1]
    /\ wk' = wk + 1
    /\ UNCHANGED <<wfaces, wpc, loaded, fileExists>>
    /\ UNCHANGED <<genVars, rayVars>>

\* The next f.write call raises after the sink took n bytes of it, not all:
\* the exception leaves the with block, which closes the file, and
\* write_binary_stl.
WWriteFail ==
    /\ wpc = "writing"
    /\ wk < Len(WriteCalls(wfaces))
    /\ \E n \in 0..(Len(WriteCalls(wfaces)[wk + 1]) - 1) :
          file' = file \o SubSeq(WriteCalls(wfaces)[wk + 1], 1, n)
    /\ wpc' = "failed"
    /\ UNCHANGED <<wfaces, wk, loaded, fileExists>>
    /\ UNCHANGED <<genVars, rayVars>>

\* The loop is over and the with block closes the file.
WClose ==
    /\ wpc = "writing"
    /\ wk = Len(WriteCalls(wfaces))
    /\ wpc' = "closed"
    /\ UNCHANGED <<wfaces, wk, loaded, fileExists, file>>
    /\ UNCHANGED <<genVars, rayVars>>

\* A faulty load_binary_stl: the vertices are built from data[0:9], the
\* normal taken for the first vertex.
UnpackRecord_FromNormal(rec) ==
    LET data(i) == UnpackF32(SubSeq(rec, 4 * i + 1, 4 * i + 4))
    IN  << <<data(0), data(1), data(2)>>,
           <<data(3), data(4), data(5)>>,
           <<data(6), data(7), data(8)>> >>

\* struct.unpack("<12fH", rec) and the three vertices built from data[3:12].
UnpackRecord(rec) ==
    LET data(i) == UnpackF32(SubSeq(rec, 4 * i + 1, 4 * i + 4))
    IN  << <<data(3), data(4), data(5)>>,
           <<data(6), data(7), data(8)>>,
           <<data(9), data(10), data(11)>> >>

\* The loop of load_binary_stl from offset pos on: a record that is short of
\* 50 bytes makes struct.unpack raise.
RECURSIVE ReadRecords(_, _, _, _)
ReadRecords(b, pos, count, tris) ==
    IF count = 0 THEN [status |-> "ok", tris |-> tris]
    ELSE IF Len(b) < pos + 50 THEN [status |-> "error", tris |-> <<>>]
    ELSE ReadRecords(b, pos + 50, count - 1,
                     Append(tris, UnpackRecord(SubSeq(b, pos + 1, pos + 50))))

\* load_binary_stl: 80 header bytes, the count, then count records.
LoadBinaryStl(b) ==
    IF Len(b) < 84 THEN [status |-> "error", tris |-> <<>>]
    ELSE ReadRecords(b, 84, FromBytesLE(SubSeq(b, 81, 84)), <<>>)

\* load_binary_stl(filename) on what the writer left.
Load ==
    /\ wpc \in {"closed", "failed", "openfailed"}
    /\ fileExists
    /\ loaded.status = "none"
    /\ loaded' = LoadBinaryStl(file)
    /\ UNCHANGED <<wfaces, wpc, wk, fileExists, file>>
    /\ UNCHANGED <<genVars, rayVars>>

IoOff ==
    /\ wfaces = <<>>
    /\ wpc = "off"
    /\ wk = 0
    /\ loaded = NotLoaded

GenOff ==
    /\ cfg = [variant |-> "off"]
    /\ gi = 0
    /\ gj = 0
    /\ faces = <<>>
    /\ chosen = <<>>
    /\ gpc = "off"
    /\ run = 0
    /\ file1 = <<>>

\* ------------------------------------------------------------------------
\* raytrace_verify.py: vectors, distances
\* ------------------------------------------------------------------------
\* A coordinate c stands for the float c / UnitDen.
UnitDen == 1000

\* eps = 1e-6 = 1 / EpsDen
EpsDen == 1000000

VSub(a, b) == <<a[1] - b[1], a[2] - b[2], a[3] - b[3]>>

\* np.cross
Cross(a, b) == << a[2] * b[3] - a[3] * b[2],
                  a[3] * b[1] - a[1] * b[3],
                  a[1] * b[2] - a[2] * b[1] >>

\* np.dot
Dot(a, b) == a[1] * b[1] + a[2] * b[2] + a[3] * b[3]

\* p < sqrt(n), for p >= 0 and 0 <= n < 2^31.
LtSqrt(p, n) == p <= 46340 /\ p * p < n

\* p / q < sqrt(n), for p >= q > 0 and 0 < n <= 46340^2: decided on the
\* integer part k of p / q where that settles it, and otherwise on the
\* squares, (k + r/q)^2 < n, with the k^2 taken to the other side.
RatioLtSqrt(p, q, n) ==
    LET k == p \div q
        r == p % q
    IN  IF k >= 46340 THEN FALSE
        ELSE IF (k + 1) * (k + 1) <= n THEN TRUE
        ELSE IF k * k >= n THEN FALSE
        ELSE 2 * k * r * q + r * r < (n - k * k) * q * q

\* a / b < c / d for a, c >= 0 and b, d > 0, by the Euclidean algorithm (no
\* product is formed).
RECURSIVE FracLess(_, _, _, _)
FracLess(a, b, c, d) ==
    IF a \div b # c \div d THEN a \div b < c \div d
    ELSE IF c % d = 0 THEN FALSE
    ELSE IF a % b = 0 THEN TRUE
    ELSE FracLess(d, c % d, b, a % b)

\* math.inf, the "no hit" value.
Inf == [inf |-> TRUE, num |-> 0, den |-> 1]

\* A finite distance t = |W| * (num / den) / UnitDen along the ray of
\* direction W / |W|: num / den is the ray parameter in units of W.
Dist(num, den) == [inf |-> FALSE, num |-> num, den |-> den]

\* t1 < t2 for two distances along the same ray (inf < x is False, x < inf is
\* True for a finite x).
DistLess(t1, t2) ==
    IF t1.inf THEN FALSE
    ELSE IF t2.inf THEN TRUE
    ELSE FracLess(t1.num, t1.den, t2.num, t2.den)

\* t < dist, where dist = |W| / UnitDen is the length the ray's direction W
\* had before it was normalised.
LessThanRayLength(t) == ~t.inf /\ t.num < t.den

\* -eps < a < eps, for a = A / (|W| * UnitDen^2).
NearZero(A, W) == LtSqrt(Abs(A) * (EpsDen \div (UnitDen * UnitDen)), Dot(W, W))

\* t > eps, for t = |W| * tn / (absA * UnitDen), absA > 0.
AboveEps(tn, absA, W) ==
    /\ tn > 0
    /\ \/ tn > absA \div (EpsDen \div UnitDen)
       \/ RatioLtSqrt(absA, tn * (EpsDen \div UnitDen), Dot(W, W))

\* A faulty ray_triangle_intersect: the second barycentric test is only
\* "v < 0.0", the "u + v > 1.0" half is lost.
ray_triangle_intersect_no_sum(orig, W, tri) ==
    LET v0 == tri[1]
        edge1 == VSub(tri[2], v0)
        edge2 == VSub(tri[3], v0)
        h == Cross(W, edge2)
        A == Dot(edge1, h)
        s == VSub(orig, v0)
        un == Sgn(A) * Dot(s, h)
        q == Cross(s, edge1)
        vn == Sgn(A) * Dot(W, q)
        tn == Sgn(A) * Dot(edge2, q)
    IN  IF NearZero(A, W) THEN Inf
        ELSE IF un < 0 \/ un > Abs(A) THEN Inf
        ELSE IF vn < 0 THEN Inf
        ELSE IF AboveEps(tn, Abs(A), W) THEN Dist(tn, Abs(A))
        ELSE Inf

\* ray_triangle_intersect(orig, dir, tri) with dir = W / |W|.
ray_triangle_intersect(orig, W, tri) ==
    LET v0 == tri[1]
        edge1 == VSub(tri[2], v0)
        edge2 == VSub(tri[3], v0)
        h == Cross(W, edge2)
        A == Dot(edge1, h)
        s == VSub(orig, v0)
        un == Sgn(A) * Dot(s, h)
        q == Cross(s, edge1)
        vn == Sgn(A) * Dot(W, q)
        tn == Sgn(A) * Dot(edge2, q)
    IN  IF NearZero(A, W) THEN Inf
        ELSE IF un < 0 \/ un > Abs(A) THEN Inf
        ELSE IF vn < 0 \/ un + vn > Abs(A) THEN Inf
        ELSE IF AboveEps(tn, Abs(A), W) THEN Dist(tn, Abs(A))
        ELSE Inf

\* ------------------------------------------------------------------------
\* Calls of ray_triangle_intersect on one ray and one triangle
\* ------------------------------------------------------------------------
\* The most calls on the same ray and triangle.
MaxCalls == 2

CallOrigins ==
    { <<25, 25, 100>>, <<25, 25, -100>>, <<200, 25, 100>>, <<-50, 25, 100>>,
      <<25, -50, 100>>, <<80, 80, 100>>, <<25, 25, 0>>, <<1, 0, 0>>, <<3, 0, 0>> }

CallDirs ==
    { <<0, 0, -1>>, <<0, 0, 1>>, <<1, 0, 0>>, <<1, 1, -1>>, <<0, 0, -5>>, <<-1, 0, -2>> }

CallTris ==
    { << <<0, 0, 0>>, <<100, 0, 0>>, <<0, 100, 0>> >>,
      << <<0, 0, 0>>, <<0, 100, 0>>, <<100, 0, 0>> >>,
      << <<0, 0, 0>>, <<1, 0, 0>>, <<0, 1, 0>> >>,
      << <<0, 0, 0>>, <<0, 1, 0>>, <<2000, 0, -1>> >>,
      << <<0, 0, 0>>, <<100, 0, 0>>, <<200, 0, 0>> >> }

RayOff ==
    /\ scene = [kind |-> "off"]
    /\ py = 0
    /\ px = 0
    /\ tk = 0
    /\ nearest = [t |-> Inf, k |-> 0]
    /\ img = <<>>
    /\ shadedBy = <<>>
    /\ rpc = "off"
    /\ rres = <<>>

CallInit ==
    /\ scene \in [kind : {"call"}, orig : CallOrigins, dir : CallDirs, tri : CallTris]
    /\ py = 0
    /\ px = 0
    /\ tk = 0
    /\ nearest = [t |-> Inf, k |-> 0]
    /\ img = <<>>
    /\ shadedBy = <<>>
    /\ rpc = "call"
    /\ rres = <<>>

\* One call: the arguments are read, nothing else is touched.
Intersect ==
    /\ rpc = "call"
    /\ Len(rres) < MaxCalls
    /\ rres' = Append(rres, ray_triangle_intersect(scene.orig, scene.dir, scene.tri))
    /\ UNCHANGED <<scene, py, px, tk, nearest, img, shadedBy, rpc>>
    /\ UNCHANGED <<genVars, fileVars, ioVars>>

\* ------------------------------------------------------------------------
\* make_shadow_image
\* ------------------------------------------------------------------------
\* The largest raster side (resolution) of a renderer run.
MaxRaster == 3

\* The most triangles of a scene.
MaxTris == 2

PixelSet(n) == (0..(n - 1)) \X (0..(n - 1))

\* (i / (resolution - 1) - 0.5) * size
TargetCoord(i, resolution, size) ==
    RoundDiv((2 * i - (resolution - 1)) * size, 2 * (resolution - 1))

\* target - light for pixel (iy, ix): the ray's direction before dir /= dist.
ShadowRay(sc, iy, ix) ==
    VSub(<< TargetCoord(ix, sc.resolution, sc.size),
            TargetCoord(iy, sc.resolution, sc.size),
            sc.plane_z >>, sc.light)

ShadowTris ==
    { << <<-4, -4, 12>>, <<8, -4, 12>>, <<-4, 8, 12>> >>,
      << <<4, 4, 12>>, <<14, 4, 12>>, <<4, 14, 12>> >>,
      << <<-100, -100, 36>>, <<200, -100, 36>>, <<-100, 200, 36>> >>,
      << <<-100, -100, -12>>, <<200, -100, -12>>, <<-100, 200, -12>> >> }

ShadowScenes ==
    [ kind : {"shadow"},
      tris : SeqsUpTo(ShadowTris, MaxTris),
      light : {<<0, 0, 0>>},
      plane_z : {24},
      size : {24, 48},
      resolution : 1..MaxRaster ]

ShadowInit ==
    /\ scene \in ShadowScenes
    /\ py = 0
    /\ px = 0
    /\ tk = 1
    /\ nearest = [t |-> Inf, k |-> 0]
    /\ img = [p \in PixelSet(scene.resolution) |-> 255]
    /\ shadedBy = [p \in PixelSet(scene.resolution) |-> 0]
    /\ rpc = "row"
    /\ rres = <<>>

\* The head of the outer loop's body: y = (iy / (resolution - 1) - 0.5) * size
\* divides by resolution - 1 and raises ZeroDivisionError when that is 0.
ShadowRow ==
    /\ rpc = "row"
    /\ scene.kind = "shadow"
    /\ py < scene.resolution
    /\ rpc' = IF scene.resolution - 1 = 0 THEN "error" ELSE "scan"
    /\ UNCHANGED <<scene, py, px, tk, nearest, img, shadedBy, rres>>
    /\ UNCHANGED <<genVars, fileVars, ioVars>>

\* The loop variables and the mode after pixel (iy, ix) is finished.
AfterPixel(iy, ix, n) ==
    IF ix + 1 < n THEN <<iy, ix + 1, "scan">> ELSE <<iy + 1, 0, "row">>

\* One pass of "for tri in tris": a hit nearer than the target blocks the
\* pixel, leaves the loop and writes 0.
ShadowTri ==
    /\ rpc = "scan"
    /\ scene.kind = "shadow"
    /\ tk <= Len(scene.tris)
    /\ LET t == ray_triangle_intersect(scene.light, ShadowRay(scene, py, px), scene.tris[tk])
           nx == AfterPixel(py, px, scene.resolution)
       IN  IF LessThanRayLength(t)
           THEN /\ img' = [img EXCEPT ![<<py, px>>] = 0]
                /\ py' = nx[1]
                /\ px' = nx[2]
                /\ rpc' = nx[3]
                /\ tk' = 1
           ELSE /\ tk' = tk + 1
                /\ UNCHANGED <<img, py, px, rpc>>
    /\ UNCHANGED <<scene, nearest, shadedBy, rres>>
    /\ UNCHANGED <<genVars, fileVars, ioVars>>

\* The triangle loop ran out with blocked still False: the pixel stays 255.
ShadowMiss ==
    /\ rpc = "scan"
    /\ scene.kind = "shadow"
    /\ tk > Len(scene.tris)
    /\ LET nx == AfterPixel(py, px, scene.resolution)
       IN  /\ py' = nx[1]
           /\ px' = nx[2]
           /\ rpc' = nx[3]
    /\ tk' = 1
    /\ UNCHANGED <<scene, nearest, img, shadedBy, rres>>
    /\ UNCHANGED <<genVars, fileVars, ioVars>>

\* return Image.fromarray(img)
ShadowReturn ==
    /\ rpc = "row"
    /\ scene.kind = "shadow"
    /\ py = scene.resolution
    /\ rpc' = "done"
    /\ UNCHANGED <<scene, py, px, tk, nearest, img, shadedBy, rres>>
    /\ UNCHANGED <<genVars, fileVars, ioVars>>

\* ------------------------------------------------------------------------
\* make_render_image
\* ------------------------------------------------------------------------
\* (px, py, -screen_dist) scaled by resolution: the camera ray's direction
\* before normalisation.  cot is screen_dist = 1 / tan(fov / 2).
RenderRay(sc, iy, ix) ==
    << 2 * ix + 1 - sc.resolution,
       sc.resolution - (2 * iy + 1),
       -(sc.cot * sc.resolution) >>

Gcd3(v) == Gcd(Gcd(v[1], v[2]), v[3])

\* v divided by the gcd of its components (the zero vector stays).
Primitive(v) ==
    IF Gcd3(v) = 0 THEN v
    ELSE <<v[1] \div Gcd3(v), v[2] \div Gcd3(v), v[3] \div Gcd3(v)>>

\* int(255 * c) for c = d / sqrt(m), 0 < d <= sqrt(m).
Scale255(d, m) ==
    CHOOSE k \in 0..255 :
        /\ k = 0 \/ ~RatioLtSqrt(255 * d, k, m)
        /\ k = 255 \/ RatioLtSqrt(255 * d, k + 1, m)

\* The shading of a hit at distance t on tri: the normal from the triangle's
\* edges (divided by its length, or by 1.0), the direction from the hit point
\* to the light (divided by its length: nan when that is 0, and max(0.0, nan)
\* is 0.0), and int(255 * max(0.0, dot)).  Both directions are taken as
\* integer vectors along them; the dot product of the unit vectors is
\* d / sqrt(m).
Shade(tri, orig, W, t, light) ==
    LET g == Gcd(t.num, t.den)
        num == t.num \div g
        den == t.den \div g
        normal == Primitive(Cross(VSub(tri[2], tri[1]), VSub(tri[3], tri[1])))
        toLight == VSub(light, orig)
        light_dir == Primitive(<< toLight[1] * den - W[1] * num,
                                  toLight[2] * den - W[2] * num,
                                  toLight[3] * den - W[3] * num >>)
        d == Dot(normal, light_dir)
        m == Dot(normal, normal) * Dot(light_dir, light_dir)
    IN  IF d <= 0 THEN 0 ELSE Scale255(d, m)

RenderTris ==
    { << <<-60, -60, 0>>, <<60, -60, 0>>, <<0, 60, 0>> >>,
      << <<-60, -60, 0>>, <<0, 60, 0>>, <<60, -60, 0>> >>,
      << <<-40, -40, 0>>, <<40, -40, 0>>, <<0, 40, 16>> >> }

RenderScenes ==
    [ kind : {"render"},
      tris : SeqsUpTo(RenderTris, MaxTris),
      light : {<<0, 0, 48>>, <<24, 0, 24>>},
      camera : {<<0, 0, 24>>},
      cot : {1},
      resolution : 1..MaxRaster ]

RenderInit ==
    /\ scene \in RenderScenes
    /\ py = 0
    /\ px = 0
    /\ tk = 1
    /\ nearest = [t |-> Inf, k |-> 0]
    /\ img = [p \in PixelSet(scene.resolution) |-> 0]
    /\ shadedBy = [p \in PixelSet(scene.resolution) |-> 0]
    /\ rpc = "scan"
    /\ rres = <<>>

\* A faulty pass of "for tri in tris": the first triangle that is hit is kept
\* and later, nearer ones are ignored (first-hit instead of nearest-hit).
RenderTri_FirstHit ==
    /\ rpc = "scan"
    /\ scene.kind = "render"
    /\ py < scene.resolution
    /\ tk <= Len(scene.tris)
    /\ LET t == ray_triangle_intersect(scene.camera, RenderRay(scene, py, px), scene.tris[tk])
       IN  nearest' = IF nearest.k = 0 /\ ~t.inf THEN [t |-> t, k |-> tk] ELSE nearest
    /\ tk' = tk + 1
    /\ UNCHANGED <<scene, py, px, img, shadedBy, rpc, rres>>
    /\ UNCHANGED <<genVars, fileVars, ioVars>>

\* One pass of "for tri in tris": a strictly nearer hit replaces the nearest.
RenderTri ==
    /\ rpc = "scan"
    /\ scene.kind = "render"
    /\ py < scene.resolution
    /\ tk <= Len(scene.tris)
    /\ LET t == ray_triangle_intersect(scene.camera, RenderRay(scene, py, px), scene.tris[tk])
       IN  nearest' = IF DistLess(t, nearest.t) THEN [t |-> t, k |-> tk] ELSE nearest
    /\ tk' = tk + 1
    /\ UNCHANGED <<scene, py, px, img, shadedBy, rpc, rres>>
    /\ UNCHANGED <<genVars, fileVars, ioVars>>

\* After the triangle loop: shade the nearest hit, if any, and go on to the
\* next pixel.
RenderPixel ==
    /\ rpc = "scan"
    /\ scene.kind = "render"
    /\ py < scene.resolution
    /\ tk > Len(scene.tris)
    /\ IF nearest.k # 0
       THEN /\ img' = [img EXCEPT ![<<py, px>>] =
                         Shade(scene.tris[nearest.k], scene.camera,
                               RenderRay(scene, py, px), nearest.t, scene.light)]
            /\ shadedBy' = [shadedBy EXCEPT ![<<py, px>>] = nearest.k]
       ELSE UNCHANGED <<img, shadedBy>>
    /\ py' = AfterPixel(py, px, scene.resolution)[1]
    /\ px' = AfterPixel(py, px, scene.resolution)[2]
    /\ tk' = 1
    /\ nearest' = [t |-> Inf, k |-> 0]
    /\ UNCHANGED <<scene, rpc, rres>>
    /\ UNCHANGED <<genVars, fileVars, ioVars>>

\* return Image.fromarray(img)
RenderReturn ==
    /\ rpc = "scan"
    /\ scene.kind = "render"
    /\ py = scene.resolution
    /\ rpc' = "done"
    /\ UNCHANGED <<scene, py, px, tk, nearest, img, shadedBy, rres>>
    /\ UNCHANGED <<genVars, fileVars, ioVars>>

\* ------------------------------------------------------------------------
\* Specifications
\* ------------------------------------------------------------------------
NoFile == fileExists = FALSE /\ file = <<>>

\* image_to_shadow_disk and image_to_shadow_stl, one run.
GenInit == (\E c \in DiskConfigs \cup StlConfigs : GenStart(c)) /\ IoOff /\ RayOff

GenNext == DiskCell \/ DiskWrite \/ StlCell \/ StlSave

SpecGen == GenInit /\ [][GenNext]_vars

\* image_to_shadow_disk run twice with the same arguments.
TwinInit == (\E c \in TwinConfigs : GenStart(c)) /\ IoOff /\ RayOff

TwinNext == DiskCell \/ DiskWrite \/ SecondRun

SpecTwin == TwinInit /\ [][TwinNext]_vars

\* write_binary_stl on a mesh, then load_binary_stl on what it left.
IoInit ==
    /\ GenOff
    /\ RayOff
    /\ wfaces \in Meshes
    /\ wpc = "start"
    /\ wk = 0
    /\ loaded = NotLoaded
    /\ \/ NoFile
       \/ fileExists = TRUE /\ file = OldFile

IoNext == WOpen \/ WOpenFail \/ WWrite \/ WWriteFail \/ WClose \/ Load

SpecIo == IoInit /\ [][IoNext]_vars

\* ray_triangle_intersect called repeatedly on the same arguments.
IntersectInit == GenOff /\ IoOff /\ NoFile /\ CallInit

IntersectNext == Intersect

SpecIntersect == IntersectInit /\ [][IntersectNext]_vars

ShadowSpecInit == GenOff /\ IoOff /\ NoFile /\ ShadowInit

ShadowNext == ShadowRow \/ ShadowTri \/ ShadowMiss \/ ShadowReturn

SpecShadow == ShadowSpecInit /\ [][ShadowNext]_vars

RenderSpecInit == GenOff /\ IoOff /\ NoFile /\ RenderInit

RenderNext == RenderTri \/ RenderPixel \/ RenderReturn

SpecRender == RenderSpecInit /\ [][RenderNext]_vars

\* ------------------------------------------------------------------------
\* Properties of ray_triangle_intersect
\* ------------------------------------------------------------------------
\* The quantities of the Moeller-Trumbore test for the ray (orig, W / |W|) and
\* the triangle tri, as numerators over the common denominator a:
\* a = A / (|W| * UnitDen^2), u = U / A, v = V / A, t = |W| * T / (A * UnitDen).
MT(orig, W, tri) ==
    LET e1 == VSub(tri[2], tri[1])
        e2 == VSub(tri[3], tri[1])
        s == VSub(orig, tri[1])
    IN  [ A |-> Dot(e1, Cross(W, e2)),
          U |-> Dot(s, Cross(W, e2)),
          V |-> Dot(W, Cross(s, e1)),
          T |-> Dot(e2, Cross(s, e1)) ]

\* |a| >= eps, 0 <= u <= 1, 0 <= v <= 1, u + v <= 1 and t > eps, with every
\* quotient by a cleared: the comparisons are written for either sign of A.
HitConditions(orig, W, tri) ==
    LET m == MT(orig, W, tri)
        absA == Abs(m.A)
        U == Sgn(m.A) * m.U
        V == Sgn(m.A) * m.V
        T == Sgn(m.A) * m.T
    IN  /\ ~NearZero(m.A, W)
        /\ 0 <= U /\ U <= absA
        /\ 0 <= V /\ V <= absA
        /\ U + V <= absA
        /\ AboveEps(T, absA, W)

\* C8: every call of ray_triangle_intersect returns a finite distance exactly
\* when |a| >= eps, 0 <= u <= 1, 0 <= v <= 1, u + v <= 1 and t > eps hold, the
\* distance then being t = (1/a) * (edge2 . q), and the +infinity sentinel in
\* every other case; repeated calls on the same ray and triangle return the
\* same value.
C8_HitIffConditions ==
    rpc = "call" =>
        \A k \in 1..Len(rres) :
            /\ ~rres[k].inf <=> HitConditions(scene.orig, scene.dir, scene.tri)
            /\ rres[k].inf => rres[k] = Inf
            /\ ~rres[k].inf =>
                   LET m == MT(scene.orig, scene.dir, scene.tri)
                   IN  rres[k] = Dist(Sgn(m.A) * m.T, Abs(m.A))
            /\ rres[k] = rres[1]

\* Two calls were made on a ray that hits the triangle in front of the origin.
C8_Witness ==
    /\ rpc = "call"
    /\ Len(rres) >= 2
    /\ ~rres[1].inf
    /\ ~rres[2].inf
    /\ rres[1].num > 0

\* ------------------------------------------------------------------------
\* Properties of make_shadow_image
\* ------------------------------------------------------------------------
\* Some triangle of the whole list is hit, on the ray from the light towards
\* the target of pixel (iy, ix), at a distance strictly less than the distance
\* from the light to the target.
Occluded(sc, iy, ix) ==
    \E k \in 1..Len(sc.tris) :
        LessThanRayLength(
            ray_triangle_intersect(sc.light, ShadowRay(sc, iy, ix), sc.tris[k]))

\* The raster the claim describes: 0 where the pixel is occluded, else 255.
ShadowRasterOf(sc) ==
    [p \in PixelSet(sc.resolution) |->
        IF Occluded(sc, p[1], p[2]) THEN 0 ELSE 255]

\* C7: for every resolution R >= 1 make_shadow_image raises nothing and
\* returns an R x R raster in which a pixel is 0 exactly when some triangle of
\* the whole list is hit nearer than the pixel's target, and 255 otherwise.
C7_ShadowRasterAnyResolution ==
    scene.kind = "shadow" =>
        /\ rpc # "error"
        /\ rpc = "done" => img = ShadowRasterOf(scene)

\* C7, from resolution 2 on: the run raises nothing, and the raster returned
\* is the one of the claim.
C7_ShadowRasterFromTwo ==
    (scene.kind = "shadow" /\ scene.resolution >= 2) =>
        /\ rpc # "error"
        /\ rpc = "done" => img = ShadowRasterOf(scene)

\* C7, resolution 1: the run ends in the ZeroDivisionError of its first row
\* and no raster is returned.
C7_ResolutionOneRaises ==
    (scene.kind = "shadow" /\ scene.resolution = 1) =>
        /\ rpc # "done"
        /\ img = [p \in PixelSet(1) |-> 255]

\* A run of resolution 1 has raised.
C7_RaisedWitness ==
    scene.kind = "shadow" /\ scene.resolution = 1 /\ rpc = "error"

\* ------------------------------------------------------------------------
\* Properties of make_render_image
\* ------------------------------------------------------------------------
\* The hit distance of triangle k on the camera ray of pixel (iy, ix).
HitAt(sc, iy, ix, k) ==
    ray_triangle_intersect(sc.camera, RenderRay(sc, iy, ix), sc.tris[k])

\* Triangle k is hit, no triangle is hit nearer, and every triangle before it
\* in the list is hit strictly farther (or not at all).
EarliestNearest(sc, iy, ix, k) ==
    /\ ~HitAt(sc, iy, ix, k).inf
    /\ \A j \in 1..Len(sc.tris) : ~DistLess(HitAt(sc, iy, ix, j), HitAt(sc, iy, ix, k))
    /\ \A j \in 1..(k - 1) : DistLess(HitAt(sc, iy, ix, k), HitAt(sc, iy, ix, j))

\* Pixel p was finished before the loops reached (py, px).
Finished(p) == p[1] < py \/ (p[1] = py /\ p[2] < px)

\* C10: every finished pixel of make_render_image is shaded exactly when some
\* triangle returns a finite hit distance; the triangle shaded is then the
\* earliest one of the list among those of minimum hit distance, the value is
\* int(255 * max(0, normal . light_dir)) and lies in 0..255; a pixel with no
\* hit, or not reached yet, is 0.
C10_NearestHitShaded ==
    scene.kind = "render" =>
        \A p \in PixelSet(scene.resolution) :
            IF Finished(p) /\ \E k \in 1..Len(scene.tris) : ~HitAt(scene, p[1], p[2], k).inf
            THEN /\ shadedBy[p] \in 1..Len(scene.tris)
                 /\ EarliestNearest(scene, p[1], p[2], shadedBy[p])
                 /\ img[p] = Shade(scene.tris[shadedBy[p]], scene.camera,
                                   RenderRay(scene, p[1], p[2]),
                                   HitAt(scene, p[1], p[2], shadedBy[p]), scene.light)
                 /\ img[p] \in 0..255
            ELSE img[p] = 0 /\ shadedBy[p] = 0

\* A finished image with a pixel on which both triangles are hit, the second
\* one nearer, shaded with a value strictly between black and white.
C10_Witness ==
    /\ scene.kind = "render"
    /\ rpc = "done"
    /\ Len(scene.tris) = 2
    /\ \E p \in PixelSet(scene.resolution) :
          /\ ~HitAt(scene, p[1], p[2], 1).inf
          /\ DistLess(HitAt(scene, p[1], p[2], 2), HitAt(scene, p[1], p[2], 1))
          /\ shadedBy[p] = 2
          /\ img[p] \in 1..254

\* ------------------------------------------------------------------------
\* Properties of write_binary_stl and load_binary_stl
\* ------------------------------------------------------------------------
\* The count field of a file of at least 84 bytes, read as little-endian.
CountField(b) == FromBytesLE(SubSeq(b, 81, 84))

\* The number of complete 50-byte records after the count field.
CompleteRecords(b) == (Len(b) - 84) \div 50

\* The k-th 50-byte record of a file.
RecordAt(b, k) == SubSeq(b, 84 + 50 * (k - 1) + 1, 84 + 50 * k)

\* The i-th float32 (from 0) of a record, decoded.
FloatAt(rec, i) == UnpackF32(SubSeq(rec, 4 * i + 1, 4 * i + 4))

\* r is v within float32 tolerance: a relative error of at most 2^-24.
WithinF32(r, v) == Abs(r - v) <= Abs(v) \div Pow2(24)

\* C2: once a write step of write_binary_stl has failed, the bytes left are
\* a proper prefix of the complete file and never a valid mesh file: the file
\* is shorter than 84 bytes, or its count field (the N of the mesh) is larger
\* than the number of complete 50-byte records after it, and load_binary_stl
\* does not read it back successfully.
C2_AbortedFileInvalid ==
    wpc = "failed" =>
        /\ fileExists
        /\ IsPrefix(file, StlBytes(wfaces))
        /\ Len(file) < Len(StlBytes(wfaces))
        /\ \/ Len(file) < 84
           \/ /\ CountField(file) = Len(wfaces)
              /\ CountField(file) > CompleteRecords(file)
        /\ loaded.status \in {"none", "error"}

\* C2: the abort is final: after a failed write step nothing more is written
\* (no retry) and nothing is taken back (no rollback).
C2_AbortIsFinal ==
    [][wpc = "failed" => (wpc' = "failed" /\ file' = file /\ fileExists' = fileExists)]_vars

\* C2, both parts.
C2_AbortLeavesInvalidFile == []C2_AbortedFileInvalid /\ C2_AbortIsFinal

\* A write failed after the header, the count and one complete record of a
\* mesh of two triangles, and load_binary_stl was tried on what was left.
C2_Witness ==
    /\ wpc = "failed"
    /\ Len(wfaces) = 2
    /\ Len(file) >= 84 + 50
    /\ loaded.status = "error"

\* C4: the file a completed write_binary_stl leaves is the 80-byte header
\* (the text padded with spaces), the 4-byte little-endian count N = number of
\* faces, and N records of 50 bytes in mesh order, each the float32 values of
\* the normal, v1, v2, v3 followed by two zero bytes: 84 + 50 * N bytes.
C4_FileLayout ==
    wpc = "closed" =>
        /\ fileExists
        /\ Len(file) = 84 + 50 * Len(wfaces)
        /\ SubSeq(file, 1, Len(HeaderText)) = HeaderText
        /\ \A k \in (Len(HeaderText) + 1)..80 : file[k] = 32
        /\ CountField(file) = Len(wfaces)
        /\ \A k \in 1..Len(wfaces) :
              LET rec == RecordAt(file, k)
                  n == Normal(wfaces[k][1], wfaces[k][2], wfaces[k][3])
              IN  /\ \A c \in 1..3 : WithinF32(FloatAt(rec, c - 1), n[c])
                  /\ \A v \in 1..3 : \A c \in 1..3 :
                        /\ WithinF32(FloatAt(rec, 3 * v + c - 1), wfaces[k][v][c])
                        /\ SubSeq(rec, 12 * v + 4 * c - 3, 12 * v + 4 * c)
                              = PackF32(wfaces[k][v][c])
                  /\ rec[49] = 0 /\ rec[50] = 0

\* A completed write of two different triangles.
C4_Witness ==
    /\ wpc = "closed"
    /\ Len(wfaces) = 2
    /\ wfaces[1] # wfaces[2]
    /\ Len(file) = 184
    /\ CountField(file) = 2

\* C5: load_binary_stl on the file write_binary_stl just completed returns as
\* many triangles as were written, in the same order, the i-th with the
\* vertices v1, v2, v3 of the i-th written face within float32 tolerance.
C5_RoundTrip ==
    (wpc = "closed" /\ loaded.status # "none") =>
        /\ loaded.status = "ok"
        /\ Len(loaded.tris) = Len(wfaces)
        /\ \A k \in 1..Len(wfaces) : \A v \in 1..3 : \A c \in 1..3 :
              WithinF32(loaded.tris[k][v][c], wfaces[k][v][c])

\* Two different triangles were written and read back; the first has a
\* coordinate that float32 rounds, the second is read back exactly, and its
\* normal differs from each of its vertices.
C5_Witness ==
    /\ wpc = "closed"
    /\ loaded.status = "ok"
    /\ Len(wfaces) = 2
    /\ loaded.tris[1] # wfaces[1]
    /\ loaded.tris[2] = wfaces[2]
    /\ \A v \in 1..3 : Normal(wfaces[2][1], wfaces[2][2], wfaces[2][3]) # wfaces[2][v]

\* ------------------------------------------------------------------------
\* Properties of the generators
\* ------------------------------------------------------------------------
\* The k-th cell (from 1) of a traversal of an n x n grid with i the outer
\* and j the inner loop.
CellAt(k, n) == <<(k - 1) \div n, (k - 1) % n>>

\* hole_radius <= distance(cell centre, grid centre) <= outer_radius for the
\* cell (i, j), the centre taken from the cell's corner and the cell size.
InAnnulus(c, i, j) ==
    LET size == RoundDiv(2 * c.outer_radius, c.resolution)
        cx == i * size - c.outer_radius + size \div 2
        cy == j * size - c.outer_radius + size \div 2
        d2 == cx * cx + cy * cy
    IN  /\ c.hole_radius > 0 => c.hole_radius * c.hole_radius <= d2
        /\ c.outer_radius >= 0
        /\ d2 <= c.outer_radius * c.outer_radius

\* The number of triangles of one primitive.
TriangleCount(sel) ==
    CASE sel = "cube" -> 12
      [] sel = "pyramid" -> 6
      [] sel = "cylinder" -> 4 * Segments
      [] sel = "none" -> 0

RECURSIVE SumCounts(_, _)
SumCounts(sels, k) ==
    IF k = 0 THEN 0 ELSE SumCounts(sels, k - 1) + TriangleCount(sels[k])

\* The triangles the k-th visited cell contributes, given what was chosen
\* for it.
CellFaces(c, k, sel) ==
    LET p == CellAt(k, c.resolution)
        size == RoundDiv(2 * c.outer_radius, c.resolution)
        h == c.base_thickness
               + RoundDiv((255 - Luminance(c.image, p[2], p[1], c.resolution)) * c.max_relief, 255)
    IN  IF sel = "none" THEN <<>>
        ELSE IF c.variant = "disk"
        THEN Tessellate(sel, p[1] * size - c.outer_radius, p[2] * size - c.outer_radius, size, h)
        ELSE create_cube(p[1] * One, p[2] * One, 0, One,
                         c.base_thickness
                           + RoundDiv((255 - Luminance(c.image, p[1], p[2], c.resolution))
                                         * c.max_relief, 255))

\* C1: with hole_radius > outer_radius image_to_shadow_disk never raises,
\* never has a triangle in its mesh, can always take its next step until it
\* has returned, and returns having written a file of 84 bytes whose count
\* field is 0.
C1_EmptyDisk ==
    (cfg.variant = "disk" /\ cfg.hole_radius > cfg.outer_radius) =>
        /\ gpc \in {"loop", "done"}
        /\ faces = <<>>
        /\ gpc = "loop" => (gi < cfg.resolution \/ (gi = cfg.resolution /\ gj = 0))
        /\ gpc = "loop" => ~fileExists
        /\ gpc = "done" =>
              /\ fileExists
              /\ Len(file) = 84
              /\ CountField(file) = 0
              /\ Len(chosen) = cfg.resolution * cfg.resolution

\* A run on a 2 x 2 grid with a positive outer radius and a larger hole
\* radius has returned.
C1_Witness ==
    /\ cfg.variant = "disk"
    /\ cfg.outer_radius > 0
    /\ cfg.hole_radius > cfg.outer_radius
    /\ cfg.resolution = 2
    /\ gpc = "done"
    /\ Len(file) = 84

\* C3: a run of image_to_shadow_disk with a shape that is none of cube,
\* cylinder, pyramid, mixed fails before any geometry work: it never has a
\* triangle in its mesh, never writes the output file and never returns
\* normally, whatever the grid and the radii.
C3_UnknownShapeFailsFirst ==
    (cfg.variant = "disk" /\ cfg.shape \notin (KnownShapes \cup {"mixed"})) =>
        /\ faces = <<>>
        /\ ~fileExists
        /\ gpc # "done"

\* C3, where some cell is included: the run raises at the first included
\* cell, with no triangle appended and no file written, and never returns.
C3_UnknownShapeRaisesWhenIncluded ==
    ( /\ cfg.variant = "disk"
      /\ cfg.shape \notin (KnownShapes \cup {"mixed"})
      /\ \E p \in CellSet(cfg.resolution) : InAnnulus(cfg, p[1], p[2]) ) =>
        /\ faces = <<>>
        /\ ~fileExists
        /\ gpc # "done"
        /\ gpc = "error" => InAnnulus(cfg, gi, gj)

\* C3, where no cell is included: the shape is never looked at; the run
\* never raises and returns with the file of an empty mesh written.
C3_UnknownShapeUnnoticedWhenEmpty ==
    ( /\ cfg.variant = "disk"
      /\ cfg.shape \notin (KnownShapes \cup {"mixed"})
      /\ \A p \in CellSet(cfg.resolution) : ~InAnnulus(cfg, p[1], p[2]) ) =>
        /\ gpc # "error"
        /\ gpc = "done" => (fileExists /\ Len(file) = 84)

\* A run with an unknown shape has returned normally and left a file.
C3_ReturnedWitness ==
    /\ cfg.variant = "disk"
    /\ cfg.shape \notin (KnownShapes \cup {"mixed"})
    /\ gpc = "done"
    /\ fileExists

\* C6, at every point of a run that has not raised: the cells visited are
\* the first ones of the traversal with i outer and j inner; a visited cell
\* has triangles exactly when it lies in the annulus (always, in the
\* full-grid variant), of a shape the selector allows; the mesh is the
\* triangles of the visited cells in traversal order, 12 for a box, 6 for a
\* pyramid, 4 * 12 for a cylinder; a run that has returned visited every cell.
C6_MeshOfVisitedCells ==
    (cfg.variant \in {"disk", "stl"} /\ gpc # "error") =>
        /\ Len(chosen) <= cfg.resolution * cfg.resolution
        /\ <<gi, gj>> = CellAt(Len(chosen) + 1, cfg.resolution)
        /\ gpc = "done" => Len(chosen) = cfg.resolution * cfg.resolution
        /\ \A k \in 1..Len(chosen) :
              LET p == CellAt(k, cfg.resolution)
              IN  IF cfg.variant = "stl" THEN chosen[k] = "cube"
                  ELSE IF InAnnulus(cfg, p[1], p[2])
                       THEN /\ chosen[k] \in KnownShapes
                            /\ cfg.shape # "mixed" => chosen[k] = cfg.shape
                       ELSE chosen[k] = "none"
        /\ faces = Flatten([k \in 1..Len(chosen) |-> CellFaces(cfg, k, chosen[k])])
        /\ \A k \in 1..Len(chosen) :
              Len(CellFaces(cfg, k, chosen[k])) = TriangleCount(chosen[k])
        /\ Len(faces) = SumCounts(chosen, Len(chosen))

\* C6: the mesh is append-only.
C6_AppendOnly == [][IsPrefix(faces, faces')]_vars

\* C6, both parts.
C6_InclusionAndCounts == []C6_MeshOfVisitedCells /\ C6_AppendOnly

\* A run over a 2 x 2 grid has returned with a box, a pyramid and a cylinder
\* in its mesh.
C6_Witness ==
    /\ cfg.variant = "disk"
    /\ cfg.resolution = 2
    /\ gpc = "done"
    /\ {"cube", "pyramid", "cylinder"} \subseteq {chosen[k] : k \in 1..Len(chosen)}
    /\ Len(faces) >= 12 + 6 + 4 * Segments

\* C9: a second run of image_to_shadow_disk with the arguments of the first
\* and a shape other than mixed leaves a file byte for byte equal to the
\* first run's.
C9_SameBytes ==
    (cfg.variant = "disk" /\ run = 2 /\ gpc = "done" /\ cfg.shape # "mixed") =>
        /\ fileExists
        /\ file = file1

\* A second run with a shape other than mixed has returned, with triangles in
\* the file.
C9_Witness ==
    /\ cfg.variant = "disk"
    /\ run = 2
    /\ gpc = "done"
    /\ cfg.shape # "mixed"
    /\ Len(file1) > 84
    /\ file = file1

\* C9, the exemption: two runs with shape mixed have left different files.
C9_MixedDiffers ==
    /\ cfg.variant = "disk"
    /\ run = 2
    /\ gpc = "done"
    /\ cfg.shape = "mixed"
    /\ file # file1

=============================================================================
